---- MODULE Spec2Model ----
(***************************************************************************)
(* AccessVision: the narration pipeline of App (src/unnamed/part_000),     *)
(* the analysis client (src/unnamed/part_001), the speech service          *)
(* (TTSService, src/unnamed/part_000) and the frame source (CameraView,    *)
(* src/components/ControlPanel.tsx).                                       *)
(*                                                                         *)
(* Execution model: one JavaScript thread.  An event handler, the render   *)
(* it causes and the effects of that render run to completion as one step; *)
(* the only suspension point is the await of analyzeImage inside           *)
(* processFrame, so a request is split into its start (inside the step     *)
(* that calls processFrame) and its completion (a step of its own).        *)
(* Every callback that React or the browser keeps (the setInterval         *)
(* callback, the setTimeout callback, the continuation of an outstanding   *)
(* request) carries the closure of the render that created it.             *)
(***************************************************************************)
EXTENDS Integers, Sequences, FiniteSets, TLC

VARIABLES
    isCameraActive,   \* useState(false)
    currentMode,      \* useState(AppMode.GENERAL)
    isProcessing,     \* useState(false)
    transcripts,      \* useState([]) : newest first
    errorMsg,         \* useState(null)
    settings,         \* useState({verbosity, speechRate, autoNarration, autoInterval})
    processingRef,    \* useRef(false)
    autoIntervalRef,  \* useRef(null) : 0 stands for null
    intervals,        \* the browser's active setInterval timers
    timeouts,         \* the browser's pending setTimeout(…, 500) callbacks, oldest first,
                      \* each with the mode whose selection set it
    requests,         \* outstanding analyzeImage calls (suspended processFrame invocations),
                      \* each with the closure it runs in and the prompt it sent
    issued,           \* number of requests issued so far (also the next request's id)
    now,              \* logical Date.now(): advances at every completion
    applied,          \* history: the ids of the completed requests, in completion order
    synth,            \* window.speechSynthesis: head is being spoken, the rest is queued
    videoReady,       \* the <video> element is mounted with readyState = 4
    hasPermission,    \* CameraView's useState<boolean | null>(null), as "true", "false" or NULL
    camera,           \* CameraView's capture streams and the <video> element's srcObject
    lastCall,         \* history: who called processFrame in the last step, and whether a request started
    lastSpeak         \* history: the speak call of the last step, and how many utterances it cancelled

vars == <<isCameraActive, currentMode, isProcessing, transcripts, errorMsg, settings,
          processingRef, autoIntervalRef, intervals, timeouts, requests, issued, now,
          applied, synth, videoReady, hasPermission, camera, lastCall, lastSpeak>>

-----------------------------------------------------------------------------
(* Bounds of the model *)

\* triggers that get a frame in one behaviour of Spec: requests issued, plus
\* mode-switch timeouts still pending
MaxRequests == 2
\* the same for SpecFlight
MaxFlight == 3
\* the same for SpecLog
MaxLogRequests == 11
\* the same for SpecService
MaxServiceRequests == 2
\* the same for SpecOutage
MaxOutageRequests == 3
\* the same for SpecFrames
MaxFrameRequests == 2
\* the same for SpecSwitch
MaxSwitchRequests == 2
\* the same for SpecPrompt
MaxPromptRequests == 1
\* the same for SpecRerun
MaxRerunRequests == 2
\* the same for SpecArbiter
MaxArbiterRequests == 3

-----------------------------------------------------------------------------
(* Program constants and input domains *)

\* transcripts keep the last 10 entries
MaxTranscripts == 10

NULL == "null"

AppMode == {"GENERAL", "TEXT", "SOCIAL", "NAVIGATION", "SHOPPING"}
Verbosity == {"MINIMAL", "STANDARD", "DETAILED"}
AutoIntervals == {2000, 4000, 8000}

\* the modes, verbosities and speech rates (in tenths) the user picks in Spec
ModeInputs == {"NAVIGATION"}
\* the modes picked in SpecSwitch
SwitchInputs == {"GENERAL", "NAVIGATION"}
VerbosityInputs == {"STANDARD"}
RateInputs == {10, 15}
IntervalInputs == {2000, 4000}

InitialSettings ==
    [verbosity |-> "STANDARD", speechRate |-> 10, autoNarration |-> FALSE,
     autoInterval |-> 4000]

CameraErrorText == "Camera permission denied or camera not found."
FallbackText == "Connection error. Please try again."
EmptyResponseText == "I couldn't analyze the scene."

-----------------------------------------------------------------------------
(* Text: strings are opaque to TLC, so the texts the model uses are given   *)
(* with their characters, and toUpperCase/includes work on the characters   *)

LowerCase == <<"a", "b", "c", "d", "e", "f", "g", "h", "i", "j", "k", "l", "m",
               "n", "o", "p", "q", "r", "s", "t", "u", "v", "w", "x", "y", "z">>
UpperCase == <<"A", "B", "C", "D", "E", "F", "G", "H", "I", "J", "K", "L", "M",
               "N", "O", "P", "Q", "R", "S", "T", "U", "V", "W", "X", "Y", "Z">>

\* the texts the analysis service answers with in Spec
ResponseTexts == {"Path is clear.", "Warning: car ahead"}

\* the texts it answers with in SpecService ("" is an empty response)
ServiceTexts ==
    ResponseTexts \cup {"", "Stop. WARNING: stairs", "mind the step, warning",
                        "Caution: wet floor"}

Chars(text) ==
    CASE text = "" -> <<>>
      [] text = "Path is clear." ->
           <<"P", "a", "t", "h", " ", "i", "s", " ", "c", "l", "e", "a", "r", ".">>
      [] text = "Warning: car ahead" ->
           <<"W", "a", "r", "n", "i", "n", "g", ":", " ", "c", "a", "r", " ", "a", "h", "e", "a", "d">>
      [] text = "Stop. WARNING: stairs" ->
           <<"S", "t", "o", "p", ".", " ", "W", "A", "R", "N", "I", "N", "G", ":", " ", "s", "t", "a", "i", "r", "s">>
      [] text = "mind the step, warning" ->
           <<"m", "i", "n", "d", " ", "t", "h", "e", " ", "s", "t", "e", "p", ",", " ", "w", "a", "r", "n", "i", "n", "g">>
      [] text = "Caution: wet floor" ->
           <<"C", "a", "u", "t", "i", "o", "n", ":", " ", "w", "e", "t", " ", "f", "l", "o", "o", "r">>
      [] text = "Navigation Mode. Focus ONLY on the path ahead. Identify obstacles, clear paths, doorways, changes in elevation (stairs, curbs), and hazards. Give specific directions and distances." ->
           <<"N", "a", "v", "i", "g", "a", "t", "i", "o", "n", " ", "M", "o", "d", "e", ".", " ", "F", "o", "c", "u", "s", " ", "O", "N", "L", "Y", " ", "o", "n", " ", "t", "h", "e", " ", "p", "a", "t", "h", " ", "a", "h", "e", "a", "d", ".", " ", "I", "d", "e", "n", "t", "i", "f", "y", " ", "o", "b", "s", "t", "a", "c", "l", "e", "s", ",", " ", "c", "l", "e", "a", "r", " ", "p", "a", "t", "h", "s", ",", " ", "d", "o", "o", "r", "w", "a", "y", "s", ",", " ", "c", "h", "a", "n", "g", "e", "s", " ", "i", "n", " ", "e", "l", "e", "v", "a", "t", "i", "o", "n", " ", "(", "s", "t", "a", "i", "r", "s", ",", " ", "c", "u", "r", "b", "s", ")", ",", " ", "a", "n", "d", " ", "h", "a", "z", "a", "r", "d", "s", ".", " ", "G", "i", "v", "e", " ", "s", "p", "e", "c", "i", "f", "i", "c", " ", "d", "i", "r", "e", "c", "t", "i", "o", "n", "s", " ", "a", "n", "d", " ", "d", "i", "s", "t", "a", "n", "c", "e", "s", ".">>
      [] text = "Text Reader Mode. Read all visible text clearly. If it's a menu, read items and prices. If it's a sign, explain its purpose. If it's a document, identify fields. Ignore background clutter." ->
           <<"T", "e", "x", "t", " ", "R", "e", "a", "d", "e", "r", " ", "M", "o", "d", "e", ".", " ", "R", "e", "a", "d", " ", "a", "l", "l", " ", "v", "i", "s", "i", "b", "l", "e", " ", "t", "e", "x", "t", " ", "c", "l", "e", "a", "r", "l", "y", ".", " ", "I", "f", " ", "i", "t", "'", "s", " ", "a", " ", "m", "e", "n", "u", ",", " ", "r", "e", "a", "d", " ", "i", "t", "e", "m", "s", " ", "a", "n", "d", " ", "p", "r", "i", "c", "e", "s", ".", " ", "I", "f", " ", "i", "t", "'", "s", " ", "a", " ", "s", "i", "g", "n", ",", " ", "e", "x", "p", "l", "a", "i", "n", " ", "i", "t", "s", " ", "p", "u", "r", "p", "o", "s", "e", ".", " ", "I", "f", " ", "i", "t", "'", "s", " ", "a", " ", "d", "o", "c", "u", "m", "e", "n", "t", ",", " ", "i", "d", "e", "n", "t", "i", "f", "y", " ", "f", "i", "e", "l", "d", "s", ".", " ", "I", "g", "n", "o", "r", "e", " ", "b", "a", "c", "k", "g", "r", "o", "u", "n", "d", " ", "c", "l", "u", "t", "t", "e", "r", ".">>
      [] text = "Social Mode. Describe people, their approximate ages, facial expressions, body language, and where they are looking. Describe the social atmosphere (relaxed, busy, private conversation)." ->
           <<"S", "o", "c", "i", "a", "l", " ", "M", "o", "d", "e", ".", " ", "D", "e", "s", "c", "r", "i", "b", "e", " ", "p", "e", "o", "p", "l", "e", ",", " ", "t", "h", "e", "i", "r", " ", "a", "p", "p", "r", "o", "x", "i", "m", "a", "t", "e", " ", "a", "g", "e", "s", ",", " ", "f", "a", "c", "i", "a", "l", " ", "e", "x", "p", "r", "e", "s", "s", "i", "o", "n", "s", ",", " ", "b", "o", "d", "y", " ", "l", "a", "n", "g", "u", "a", "g", "e", ",", " ", "a", "n", "d", " ", "w", "h", "e", "r", "e", " ", "t", "h", "e", "y", " ", "a", "r", "e", " ", "l", "o", "o", "k", "i", "n", "g", ".", " ", "D", "e", "s", "c", "r", "i", "b", "e", " ", "t", "h", "e", " ", "s", "o", "c", "i", "a", "l", " ", "a", "t", "m", "o", "s", "p", "h", "e", "r", "e", " ", "(", "r", "e", "l", "a", "x", "e", "d", ",", " ", "b", "u", "s", "y", ",", " ", "p", "r", "i", "v", "a", "t", "e", " ", "c", "o", "n", "v", "e", "r", "s", "a", "t", "i", "o", "n", ")", ".">>
      [] text = "Shopping Mode. Identify products, read brand names and prices if visible. Compare items if multiple are present. Mention colors and packaging details." ->
           <<"S", "h", "o", "p", "p", "i", "n", "g", " ", "M", "o", "d", "e", ".", " ", "I", "d", "e", "n", "t", "i", "f", "y", " ", "p", "r", "o", "d", "u", "c", "t", "s", ",", " ", "r", "e", "a", "d", " ", "b", "r", "a", "n", "d", " ", "n", "a", "m", "e", "s", " ", "a", "n", "d", " ", "p", "r", "i", "c", "e", "s", " ", "i", "f", " ", "v", "i", "s", "i", "b", "l", "e", ".", " ", "C", "o", "m", "p", "a", "r", "e", " ", "i", "t", "e", "m", "s", " ", "i", "f", " ", "m", "u", "l", "t", "i", "p", "l", "e", " ", "a", "r", "e", " ", "p", "r", "e", "s", "e", "n", "t", ".", " ", "M", "e", "n", "t", "i", "o", "n", " ", "c", "o", "l", "o", "r", "s", " ", "a", "n", "d", " ", "p", "a", "c", "k", "a", "g", "i", "n", "g", " ", "d", "e", "t", "a", "i", "l", "s", ".">>
      [] text = "General Mode. Describe the scene comprehensively but concisely. Mention the most important objects, people, and layout of the room or area. Identify immediate surroundings." ->
           <<"G", "e", "n", "e", "r", "a", "l", " ", "M", "o", "d", "e", ".", " ", "D", "e", "s", "c", "r", "i", "b", "e", " ", "t", "h", "e", " ", "s", "c", "e", "n", "e", " ", "c", "o", "m", "p", "r", "e", "h", "e", "n", "s", "i", "v", "e", "l", "y", " ", "b", "u", "t", " ", "c", "o", "n", "c", "i", "s", "e", "l", "y", ".", " ", "M", "e", "n", "t", "i", "o", "n", " ", "t", "h", "e", " ", "m", "o", "s", "t", " ", "i", "m", "p", "o", "r", "t", "a", "n", "t", " ", "o", "b", "j", "e", "c", "t", "s", ",", " ", "p", "e", "o", "p", "l", "e", ",", " ", "a", "n", "d", " ", "l", "a", "y", "o", "u", "t", " ", "o", "f", " ", "t", "h", "e", " ", "r", "o", "o", "m", " ", "o", "r", " ", "a", "r", "e", "a", ".", " ", "I", "d", "e", "n", "t", "i", "f", "y", " ", "i", "m", "m", "e", "d", "i", "a", "t", "e", " ", "s", "u", "r", "r", "o", "u", "n", "d", "i", "n", "g", "s", ".">>
      [] text = "Keep response under 15 words. Only critical info and hazards." ->
           <<"K", "e", "e", "p", " ", "r", "e", "s", "p", "o", "n", "s", "e", " ", "u", "n", "d", "e", "r", " ", "1", "5", " ", "w", "o", "r", "d", "s", ".", " ", "O", "n", "l", "y", " ", "c", "r", "i", "t", "i", "c", "a", "l", " ", "i", "n", "f", "o", " ", "a", "n", "d", " ", "h", "a", "z", "a", "r", "d", "s", ".">>
      [] text = "Keep response under 40 words. Balance detail with speed." ->
           <<"K", "e", "e", "p", " ", "r", "e", "s", "p", "o", "n", "s", "e", " ", "u", "n", "d", "e", "r", " ", "4", "0", " ", "w", "o", "r", "d", "s", ".", " ", "B", "a", "l", "a", "n", "c", "e", " ", "d", "e", "t", "a", "i", "l", " ", "w", "i", "t", "h", " ", "s", "p", "e", "e", "d", ".">>
      [] text = "Provide a detailed description (up to 70 words)." ->
           <<"P", "r", "o", "v", "i", "d", "e", " ", "a", " ", "d", "e", "t", "a", "i", "l", "e", "d", " ", "d", "e", "s", "c", "r", "i", "p", "t", "i", "o", "n", " ", "(", "u", "p", " ", "t", "o", " ", "7", "0", " ", "w", "o", "r", "d", "s", ")", ".">>
      [] text = "If you see an immediate danger (car, drop-off, fire), start with 'WARNING:'." ->
           <<"I", "f", " ", "y", "o", "u", " ", "s", "e", "e", " ", "a", "n", " ", "i", "m", "m", "e", "d", "i", "a", "t", "e", " ", "d", "a", "n", "g", "e", "r", " ", "(", "c", "a", "r", ",", " ", "d", "r", "o", "p", "-", "o", "f", "f", ",", " ", "f", "i", "r", "e", ")", ",", " ", "s", "t", "a", "r", "t", " ", "w", "i", "t", "h", " ", "'", "W", "A", "R", "N", "I", "N", "G", ":", "'", ".">>
      [] text = "Connection error. Please try again." ->
           <<"C", "o", "n", "n", "e", "c", "t", "i", "o", "n", " ", "e", "r", "r", "o", "r", ".", " ", "P", "l", "e", "a", "s", "e", " ", "t", "r", "y", " ", "a", "g", "a", "i", "n", ".">>
      [] text = "I couldn't analyze the scene." ->
           <<"I", " ", "c", "o", "u", "l", "d", "n", "'", "t", " ", "a", "n", "a", "l", "y", "z", "e", " ", "t", "h", "e", " ", "s", "c", "e", "n", "e", ".">>

WARNING == <<"W", "A", "R", "N", "I", "N", "G">>
CAUTION == <<"C", "A", "U", "T", "I", "O", "N">>

UpperChar(c) ==
    IF \E i \in 1..Len(LowerCase) : LowerCase[i] = c
    THEN UpperCase[CHOOSE i \in 1..Len(LowerCase) : LowerCase[i] = c]
    ELSE c

\* String.prototype.toUpperCase
ToUpperCase(cs) == [i \in 1..Len(cs) |-> UpperChar(cs[i])]

\* String.prototype.includes
Includes(cs, needle) ==
    \E i \in 1..(Len(cs) - Len(needle) + 1) :
        SubSeq(cs, i, i + Len(needle) - 1) = needle

\* `${mode.toLowerCase().replace('_', ' ')} mode selected`
ModeAnnouncement(mode) ==
    CASE mode = "GENERAL" -> "general mode selected"
      [] mode = "TEXT" -> "text mode selected"
      [] mode = "SOCIAL" -> "social mode selected"
      [] mode = "NAVIGATION" -> "navigation mode selected"
      [] mode = "SHOPPING" -> "shopping mode selected"

-----------------------------------------------------------------------------
(* Analysis client: getPromptForMode *)

\* the switch on mode; GENERAL shares the default branch
BasePrompt(mode) ==
    CASE mode = "NAVIGATION" ->
           "Navigation Mode. Focus ONLY on the path ahead. Identify obstacles, clear paths, doorways, changes in elevation (stairs, curbs), and hazards. Give specific directions and distances."
      [] mode = "TEXT" ->
           "Text Reader Mode. Read all visible text clearly. If it's a menu, read items and prices. If it's a sign, explain its purpose. If it's a document, identify fields. Ignore background clutter."
      [] mode = "SOCIAL" ->
           "Social Mode. Describe people, their approximate ages, facial expressions, body language, and where they are looking. Describe the social atmosphere (relaxed, busy, private conversation)."
      [] mode = "SHOPPING" ->
           "Shopping Mode. Identify products, read brand names and prices if visible. Compare items if multiple are present. Mention colors and packaging details."
      [] OTHER ->
           "General Mode. Describe the scene comprehensively but concisely. Mention the most important objects, people, and layout of the room or area. Identify immediate surroundings."

\* mutant: the STANDARD branch is missing
LengthInstructionWithoutStandard(verbosity) ==
    IF verbosity = "MINIMAL"
    THEN "Keep response under 15 words. Only critical info and hazards."
    ELSE "Provide a detailed description (up to 70 words)."

\* the if / else if / else on verbosity
LengthInstruction(verbosity) ==
    IF verbosity = "MINIMAL"
    THEN "Keep response under 15 words. Only critical info and hazards."
    ELSE IF verbosity = "STANDARD"
    THEN "Keep response under 40 words. Balance detail with speed."
    ELSE "Provide a detailed description (up to 70 words)."

WarningRule == "If you see an immediate danger (car, drop-off, fire), start with 'WARNING:'."

\* `${basePrompt} ${lengthInstruction} If you see ...`: the three parts, which
\* the template joins with single spaces
GetPromptForMode(mode, verbosity) ==
    <<BasePrompt(mode), LengthInstruction(verbosity), WarningRule>>

-----------------------------------------------------------------------------
(* Analysis client: analyzeImage, from the service's outcome on *)

Fail == "fail"

\* what the service does with one request: answers with a text, or fails
Outcomes == ResponseTexts \cup {Fail}
ServiceOutcomes == ServiceTexts \cup {Fail}

\* mutant: the text is searched as it is, not in upper case
IsUrgentCaseSensitive(text) ==
    \/ Includes(Chars(text), WARNING)
    \/ Includes(Chars(text), CAUTION)

IsUrgent(text) ==
    \/ Includes(ToUpperCase(Chars(text)), WARNING)
    \/ Includes(ToUpperCase(Chars(text)), CAUTION)

\* mutant: a failure yields an empty result
AnalyzeImageEmptyOnFailure(outcome) ==
    IF outcome = Fail
    THEN [text |-> "", isUrgent |-> FALSE]
    ELSE LET text == IF outcome = "" THEN EmptyResponseText ELSE outcome
         IN [text |-> text, isUrgent |-> IsUrgent(text)]

AnalyzeImage(outcome) ==
    IF outcome = Fail
    THEN [text |-> FallbackText, isUrgent |-> FALSE]
    ELSE LET text == IF outcome = "" THEN EmptyResponseText ELSE outcome
         IN [text |-> text, isUrgent |-> IsUrgent(text)]

-----------------------------------------------------------------------------
(* Speech service: TTSService.speak on the device's utterance list *)

\* speechSynthesis.speaking
Speaking(q) == Len(q) > 0

\* mutant: the urgent branch is missing
CancelsOnlyStaleNarration(q, priority, s) == Len(q) > 0 /\ s.autoNarration

\* mutant: a normal call cancels whenever the device is speaking
CancelsWheneverSpeaking(q, priority, s) == priority = "urgent" \/ Len(q) > 0

\* mutant: a normal call leaves an urgent utterance that is being spoken alone
CancelsUnlessUrgentPlaying(q, priority, s) ==
    IF priority = "urgent" THEN TRUE
    ELSE Len(q) > 0 /\ s.autoNarration /\ q[1].pitch # 11

\* whether speak calls synthesis.cancel() first
CancelsSpeech(q, priority, s) ==
    IF priority = "urgent" THEN TRUE
    ELSE Speaking(q) /\ s.autoNarration

Utterance(text, priority, s) ==
    [text |-> text, rate |-> s.speechRate,
     pitch |-> IF priority = "urgent" THEN 11 ELSE 10]

Speak(q, text, priority, s) ==
    IF text = "" THEN q
    ELSE Append(IF CancelsSpeech(q, priority, s) THEN <<>> ELSE q,
                Utterance(text, priority, s))

Spoken(priority, cancelled) == [priority |-> priority, cancelled |-> cancelled]

\* the step calls ttsService.speak(text, priority, s)
SpeakCall(text, priority, s) ==
    /\ synth' = Speak(synth, text, priority, s)
    /\ lastSpeak' = Spoken(priority,
                           IF text # "" /\ CancelsSpeech(synth, priority, s)
                           THEN Len(synth) ELSE 0)

\* the step makes no speak call
NoSpeakCall == lastSpeak' = Spoken("none", 0)

-----------------------------------------------------------------------------
(* Transcript log *)

NewEntry(result, timestamp) ==
    [text |-> result.text,
     priority |-> IF result.isUrgent THEN "urgent" ELSE "normal",
     timestamp |-> timestamp]

\* Array.prototype.slice(0, n)
Slice(seq, n) == SubSeq(seq, 1, IF Len(seq) < n THEN Len(seq) ELSE n)

\* mutant: the log is cut one entry late
PushTranscriptOffByOne(newEntry, prev) ==
    SubSeq(<<newEntry>> \o prev, 1,
           IF Len(prev) + 1 < MaxTranscripts + 1 THEN Len(prev) + 1 ELSE MaxTranscripts + 1)

\* mutant: the new entry replaces the log
PushTranscriptOverwrite(newEntry, prev) == <<newEntry>>

\* [newEntry, ...prev].slice(0, 10)
PushTranscript(newEntry, prev) == Slice(<<newEntry>> \o prev, MaxTranscripts)

-----------------------------------------------------------------------------
(* Narration scheduler: processFrame *)

\* what a processFrame created by one render closes over and reads:
\* isCameraActive, currentMode, and of settings the verbosity (for analyzeImage)
\* and the fields speak reads (autoNarration, speechRate)
Closure(active, mode, s) ==
    [active |-> active, mode |-> mode,
     settings |-> [verbosity |-> s.verbosity, speechRate |-> s.speechRate,
                   autoNarration |-> s.autoNarration]]

CurrentClosure == Closure(isCameraActive, currentMode, settings)

\* mutant: the in-flight check is left out
SkipsOnlyInactive(cl, triggeredByAuto) == ~cl.active

\* mutant: the in-flight check applies to every trigger
SkipsAnyInFlight(cl, triggeredByAuto) == ~cl.active \/ processingRef

\* if (!isCameraActive || (processingRef.current && triggeredByAuto)) return;
Skips(cl, triggeredByAuto) == ~cl.active \/ (processingRef /\ triggeredByAuto)

\* mutant: captureFrame gives a frame whatever the video element's state
CaptureFrameAlways(ready) == TRUE

\* cameraRef.current?.captureFrame(): a frame, unless the video element is
\* missing or its readyState is not 4
CaptureFrame(ready) == ready

\* who calls processFrame: the effect ("effect") and the interval timer ("tick")
\* with triggeredByAuto = true, the Analyze Now button ("button") and the
\* mode-switch timeout ("timeout") without it
AutoCallers == {"effect", "tick"}
ManualCallers == {"button", "timeout"}

Call(caller, started) == [caller |-> caller, started |-> started]

\* the step makes no processFrame call
NoProcessFrame ==
    /\ UNCHANGED <<requests, issued, isProcessing, processingRef>>
    /\ lastCall' = Call("none", FALSE)

\* processFrame up to its await: called with closure cl while the frame source
\* is in state ready
ProcessFrame(caller, cl, ready) ==
    LET triggeredByAuto == caller \in AutoCallers
    IN
    IF Skips(cl, triggeredByAuto) \/ ~CaptureFrame(ready)
    THEN /\ UNCHANGED <<requests, issued, isProcessing, processingRef>>
         /\ lastCall' = Call(caller, FALSE)
    ELSE /\ requests' = requests \cup
                {[id |-> issued + 1, auto |-> triggeredByAuto,
                  mode |-> cl.mode, settings |-> cl.settings,
                  prompt |-> GetPromptForMode(cl.mode, cl.settings.verbosity)]}
         /\ issued' = issued + 1
         /\ isProcessing' = TRUE
         /\ processingRef' = TRUE
         /\ lastCall' = Call(caller, TRUE)

-----------------------------------------------------------------------------
(* Narration scheduler: the auto-narration effect *)

\* clearInterval(handle)
ClearInterval(ivs, handle) == {t \in ivs : t.id # handle}

\* mutant: the effect returns no cleanup
NoEffectCleanup(ivs, ref) == ivs

\* the effect's cleanup: if (autoIntervalRef.current) clearInterval(...)
EffectCleanup(ivs, ref) == IF ref # 0 THEN ClearInterval(ivs, ref) ELSE ivs

\* window.setInterval returns a handle no active timer has; handles are kept
\* apart from the one the ref still holds
FreshHandle(ivs, ref) ==
    CHOOSE h \in 1..(Cardinality(ivs) + 2) : h # ref /\ \A t \in ivs : t.id # h

\* mutant: the effect schedules whenever auto-narration is on, camera or not
EffectBodyIgnoresCamera(ivs, ref, active, mode, s) ==
    IF s.autoNarration
    THEN LET h == CHOOSE h \in 1..(Cardinality(ivs) + 2) :
                      h # ref /\ \A t \in ivs : t.id # h
         IN [intervals |-> ivs \cup {[id |-> h, period |-> s.autoInterval,
                                      cl |-> Closure(active, mode, s)]},
             ref |-> h, trigger |-> TRUE]
    ELSE [intervals |-> IF ref # 0 THEN {t \in ivs : t.id # ref} ELSE ivs,
          ref |-> 0, trigger |-> FALSE]

\* the effect's body in the render with state (active, mode, s): the timers and
\* the ref it leaves, and whether it calls processFrame(true)
EffectBody(ivs, ref, active, mode, s) ==
    IF active /\ s.autoNarration
    THEN LET h == FreshHandle(ivs, ref)
         IN [intervals |-> ivs \cup {[id |-> h, period |-> s.autoInterval,
                                      cl |-> Closure(active, mode, s)]},
             ref |-> h, trigger |-> TRUE]
    ELSE [intervals |-> IF ref # 0 THEN ClearInterval(ivs, ref) ELSE ivs,
          ref |-> 0, trigger |-> FALSE]

\* a render that changed one of the effect's dependencies: cleanup, then body
AutoNarrationEffect(ivs, ref, active, mode, s) ==
    EffectBody(EffectCleanup(ivs, ref), ref, active, mode, s)

RunEffect(active, mode, s, ready) ==
    LET e == AutoNarrationEffect(intervals, autoIntervalRef, active, mode, s)
    IN /\ intervals' = e.intervals
       /\ autoIntervalRef' = e.ref
       /\ IF e.trigger
          THEN ProcessFrame("effect", Closure(active, mode, s), ready)
          ELSE NoProcessFrame

-----------------------------------------------------------------------------
(* Frame source: CameraView's effect and its capture streams *)

\* camera.stream   : the `stream` of the effect run that is current: "none" (no
\*                   getUserMedia call, or a rejected one), "pending" (the call
\*                   is awaited) or "live" (resolved, tracks running)
\* camera.orphaned : a getUserMedia call is still awaited by an effect run whose
\*                   cleanup has already run (how many such calls is not
\*                   counted: when one settles, others may or may not remain)
\* camera.leaked   : a stream acquired by such a run is live; no cleanup is left
\*                   that stops its tracks
\* camera.attached : the mounted <video> element has a srcObject
NoCamera ==
    [stream |-> "none", orphaned |-> FALSE, leaked |-> FALSE, attached |-> FALSE]

\* the runs of the effect whose getUserMedia call can settle
Runs == {"current", "orphan"}

\* the cleanup: if (stream) stream.getTracks().forEach(track => track.stop());
\* a call still awaited has left `stream` null and is left behind
CameraCleanup(cam) ==
    [cam EXCEPT !.stream = "none", !.orphaned = @ \/ cam.stream = "pending"]

\* the body: if (isActive) startCamera()
CameraBody(cam, active) ==
    [cam EXCEPT !.stream = IF active THEN "pending" ELSE "none"]

\* the effect runs again: isActive changed, or App rendered and passed a new
\* onCameraError arrow
CameraViewEffect(cam, active) == CameraBody(CameraCleanup(cam), active)

\* n renders of App in one step
Renders(cam, active, n) ==
    IF n = 0 THEN cam
    ELSE IF n = 1 THEN CameraViewEffect(cam, active)
    ELSE CameraViewEffect(CameraViewEffect(cam, active), active)

\* setIsProcessing(true) changed the state: one more render of App
StartRenders == IF isProcessing' # isProcessing THEN 1 ELSE 0

\* CameraView renders the <video> element
VideoMounted == isCameraActive /\ hasPermission # "false"

-----------------------------------------------------------------------------
(* Initial state: App and CameraView just mounted *)

Init ==
    /\ isCameraActive = FALSE
    /\ currentMode = "GENERAL"
    /\ isProcessing = FALSE
    /\ transcripts = <<>>
    /\ errorMsg = NULL
    /\ settings = InitialSettings
    /\ processingRef = FALSE
    /\ autoIntervalRef = 0
    /\ intervals = {}
    /\ timeouts = <<>>
    /\ requests = {}
    /\ issued = 0
    /\ now = 0
    /\ applied = <<>>
    /\ synth = <<>>
    /\ videoReady = FALSE
    /\ hasPermission = NULL
    /\ camera = NoCamera
    /\ lastCall = Call("none", FALSE)
    /\ lastSpeak = Spoken("none", 0)

-----------------------------------------------------------------------------
(* User actions *)

ToggleCamera ==
    LET newState == ~isCameraActive
    IN /\ isCameraActive' = newState
       /\ SpeakCall(IF newState THEN "Camera started" ELSE "Camera stopped",
                    "urgent", settings)
       /\ videoReady' = FALSE
       /\ RunEffect(newState, currentMode, settings, FALSE)
       /\ camera' = [Renders(camera, newState, 1 + StartRenders) EXCEPT !.attached = FALSE]
       /\ UNCHANGED <<currentMode, transcripts, errorMsg, settings, timeouts, now, applied,
                      hasPermission>>

\* setSettings(next): a new settings object, hence a new processFrame
SetSettings(next) ==
    /\ settings' = next
    /\ NoSpeakCall
    /\ RunEffect(isCameraActive, currentMode, next, videoReady)
    /\ camera' = Renders(camera, isCameraActive, 1 + StartRenders)
    /\ UNCHANGED <<isCameraActive, currentMode, transcripts, errorMsg, timeouts, now, applied,
                   synth, videoReady, hasPermission>>

\* the auto-narration button, disabled while the camera is off
ToggleAutoNarration ==
    /\ isCameraActive
    /\ SetSettings([settings EXCEPT !.autoNarration = ~@])

\* the interval <select>: onChange fires for another value
SetAutoInterval(v) ==
    /\ v # settings.autoInterval
    /\ SetSettings([settings EXCEPT !.autoInterval = v])

\* the reading-speed slider
SetSpeechRate(r) ==
    /\ r # settings.speechRate
    /\ SetSettings([settings EXCEPT !.speechRate = r])

\* a verbosity button (also the one already chosen)
SetVerbosity(v) == SetSettings([settings EXCEPT !.verbosity = v])

\* the timeout that handleModeSelect(mode) sets: its callback calls the
\* processFrame of the render the handler belongs to; selected records the mode
\* the handler was called with
ModeSwitchTimeout(mode) == [cl |-> CurrentClosure, selected |-> mode]

\* mutant: the delayed trigger is scheduled whatever the settings and the camera
HandleModeSelectAlwaysSchedules(mode) ==
    /\ ~(isProcessing /\ mode = currentMode)
    /\ currentMode' = mode
    /\ SpeakCall(ModeAnnouncement(mode), "urgent", settings)
    /\ timeouts' = Append(timeouts, ModeSwitchTimeout(mode))
    /\ IF mode # currentMode
       THEN /\ RunEffect(isCameraActive, mode, settings, videoReady)
            /\ camera' = Renders(camera, isCameraActive, 1 + StartRenders)
       ELSE /\ NoProcessFrame
            /\ UNCHANGED <<intervals, autoIntervalRef, camera>>
    /\ UNCHANGED <<isCameraActive, transcripts, errorMsg, settings, now, applied, videoReady,
                   hasPermission>>

\* a mode button of ControlPanel, disabled for the current mode while processing
HandleModeSelect(mode) ==
    /\ ~(isProcessing /\ mode = currentMode)
    /\ currentMode' = mode
    /\ SpeakCall(ModeAnnouncement(mode), "urgent", settings)
    /\ IF ~settings.autoNarration /\ isCameraActive
       THEN timeouts' = Append(timeouts, ModeSwitchTimeout(mode))
       ELSE UNCHANGED timeouts
    /\ IF mode # currentMode
       THEN /\ RunEffect(isCameraActive, mode, settings, videoReady)
            /\ camera' = Renders(camera, isCameraActive, 1 + StartRenders)
       ELSE /\ NoProcessFrame
            /\ UNCHANGED <<intervals, autoIntervalRef, camera>>
    /\ UNCHANGED <<isCameraActive, transcripts, errorMsg, settings, now, applied, videoReady,
                   hasPermission>>

\* the "Analyze Now" button: rendered while the camera is on and auto-narration
\* off, disabled while isProcessing
AnalyzeNow ==
    /\ isCameraActive /\ ~settings.autoNarration /\ ~isProcessing
    /\ ProcessFrame("button", CurrentClosure, videoReady)
    /\ camera' = Renders(camera, isCameraActive, StartRenders)
    /\ NoSpeakCall
    /\ UNCHANGED <<isCameraActive, currentMode, transcripts, errorMsg, settings,
                   autoIntervalRef, intervals, timeouts, now, applied, synth, videoReady,
                   hasPermission>>

DismissError ==
    /\ errorMsg # NULL
    /\ errorMsg' = NULL
    /\ camera' = Renders(camera, isCameraActive, 1)
    /\ NoProcessFrame
    /\ NoSpeakCall
    /\ UNCHANGED <<isCameraActive, currentMode, transcripts, settings, autoIntervalRef,
                   intervals, timeouts, now, applied, synth, videoReady, hasPermission>>

-----------------------------------------------------------------------------
(* Timers *)

\* the setTimeout(() => processFrame(), 500) of handleModeSelect comes due;
\* equal delays come due in the order they were set
TimeoutFires ==
    /\ timeouts # <<>>
    /\ ProcessFrame("timeout", Head(timeouts).cl, videoReady)
    /\ camera' = Renders(camera, isCameraActive, StartRenders)
    /\ timeouts' = Tail(timeouts)
    /\ NoSpeakCall
    /\ UNCHANGED <<isCameraActive, currentMode, transcripts, errorMsg, settings,
                   autoIntervalRef, intervals, now, applied, synth, videoReady, hasPermission>>

\* an active setInterval timer ticks
IntervalTick(t) ==
    /\ t \in intervals
    /\ ProcessFrame("tick", t.cl, videoReady)
    /\ camera' = Renders(camera, isCameraActive, StartRenders)
    /\ NoSpeakCall
    /\ UNCHANGED <<isCameraActive, currentMode, transcripts, errorMsg, settings,
                   autoIntervalRef, intervals, timeouts, now, applied, synth, videoReady,
                   hasPermission>>

-----------------------------------------------------------------------------
(* Completion of a request: processFrame from its await on *)

\* mutant: the ref is not reset
FinallyKeepsRef ==
    /\ isProcessing' = FALSE
    /\ UNCHANGED processingRef

\* finally { setIsProcessing(false); processingRef.current = false; }
Finally ==
    /\ isProcessing' = FALSE
    /\ processingRef' = FALSE

\* mutant: a result that arrives while the camera is off is dropped
CompleteIfActive(r, outcome) ==
    LET result == AnalyzeImage(outcome)
        newEntry == NewEntry(result, now + 1)
    IN /\ r \in requests
       /\ requests' = requests \ {r}
       /\ IF isCameraActive
          THEN /\ now' = now + 1
               /\ applied' = Append(applied, r.id)
               /\ transcripts' = PushTranscript(newEntry, transcripts)
               /\ SpeakCall(result.text, newEntry.priority, r.settings)
          ELSE /\ UNCHANGED <<now, applied, transcripts, synth>>
               /\ NoSpeakCall
       /\ Finally
       /\ camera' = Renders(camera, isCameraActive, 1)
       /\ lastCall' = Call("none", FALSE)
       /\ UNCHANGED <<isCameraActive, currentMode, errorMsg, settings, autoIntervalRef,
                      intervals, timeouts, issued, videoReady, hasPermission>>

Complete(r, outcome) ==
    LET result == AnalyzeImage(outcome)
        newEntry == NewEntry(result, now + 1)
    IN /\ r \in requests
       /\ requests' = requests \ {r}
       /\ now' = now + 1
       /\ applied' = Append(applied, r.id)
       /\ transcripts' = PushTranscript(newEntry, transcripts)
       /\ SpeakCall(result.text, newEntry.priority, r.settings)
       /\ Finally
       /\ camera' = Renders(camera, isCameraActive, 1)
       /\ lastCall' = Call("none", FALSE)
       /\ UNCHANGED <<isCameraActive, currentMode, errorMsg, settings, autoIntervalRef,
                      intervals, timeouts, issued, videoReady, hasPermission>>

-----------------------------------------------------------------------------
(* Devices *)

\* the utterance being spoken ends; the next queued one starts
UtteranceEnds ==
    /\ synth # <<>>
    /\ synth' = Tail(synth)
    /\ NoProcessFrame
    /\ NoSpeakCall
    /\ UNCHANGED <<isCameraActive, currentMode, transcripts, errorMsg, settings,
                   autoIntervalRef, intervals, timeouts, now, applied, videoReady, hasPermission,
                   camera>>

\* the getUserMedia call of an effect run resolves: stream = ...; and, if the
\* <video> element is mounted, videoRef.current.srcObject = stream (the element
\* loads anew) and setHasPermission(true)
StreamAcquired(run) ==
    /\ \/ /\ run = "current" /\ camera.stream = "pending"
          /\ camera' = [camera EXCEPT !.stream = "live", !.attached = @ \/ VideoMounted]
       \/ /\ run = "orphan" /\ camera.orphaned
          /\ \E more \in BOOLEAN :
                 camera' = [camera EXCEPT !.orphaned = more, !.leaked = TRUE,
                                          !.attached = @ \/ VideoMounted]
    /\ IF VideoMounted
       THEN hasPermission' = "true" /\ videoReady' = FALSE
       ELSE UNCHANGED <<hasPermission, videoReady>>
    /\ NoProcessFrame
    /\ NoSpeakCall
    /\ UNCHANGED <<isCameraActive, currentMode, transcripts, errorMsg, settings,
                   autoIntervalRef, intervals, timeouts, now, applied, synth>>

\* the <video> element has decoded a frame of its srcObject: readyState = 4
VideoBecomesReady ==
    /\ camera.attached /\ ~videoReady
    /\ videoReady' = TRUE
    /\ NoProcessFrame
    /\ NoSpeakCall
    /\ UNCHANGED <<isCameraActive, currentMode, transcripts, errorMsg, settings,
                   autoIntervalRef, intervals, timeouts, now, applied, synth, hasPermission,
                   camera>>

\* the <video> element stops having a current frame (the tracks of its
\* srcObject were stopped)
VideoStalls ==
    /\ videoReady
    /\ videoReady' = FALSE
    /\ NoProcessFrame
    /\ NoSpeakCall
    /\ UNCHANGED <<isCameraActive, currentMode, transcripts, errorMsg, settings,
                   autoIntervalRef, intervals, timeouts, now, applied, synth, hasPermission,
                   camera>>

\* the getUserMedia call of an effect run rejects: setHasPermission(false), so
\* the <video> element is unmounted, and onCameraError(...); a changed errorMsg
\* renders App
CameraError(run) ==
    LET rejected(cam) == [cam EXCEPT !.attached = FALSE]
        rendered(cam) == IF errorMsg # CameraErrorText
                         THEN Renders(cam, isCameraActive, 1) ELSE cam
    IN /\ \/ /\ run = "current" /\ camera.stream = "pending"
             /\ camera' = rendered(rejected([camera EXCEPT !.stream = "none"]))
          \/ /\ run = "orphan" /\ camera.orphaned
             /\ \E more \in BOOLEAN :
                    camera' = rendered(rejected([camera EXCEPT !.orphaned = more]))
       /\ hasPermission' = "false"
       /\ videoReady' = FALSE
       /\ errorMsg' = CameraErrorText
       /\ NoProcessFrame
       /\ NoSpeakCall
       /\ UNCHANGED <<isCameraActive, currentMode, transcripts, settings, autoIntervalRef,
                      intervals, timeouts, now, applied, synth>>

-----------------------------------------------------------------------------
(* Specification *)

\* the step leaves the requests issued and the timeouts pending within the bound
Within(limit) == issued' + Len(timeouts') <= limit

\* The scheduler, the transcript log and the speech device.  Rejected and
\* orphaned getUserMedia calls are left to SpecCamera: for the scheduler they
\* only make frames unavailable, which a newly attached stream and VideoStalls
\* do as well.
Next ==
    \/ ToggleCamera
    \/ ToggleAutoNarration /\ Within(MaxRequests)
    \/ \E v \in IntervalInputs : SetAutoInterval(v) /\ Within(MaxRequests)
    \/ \E mode \in ModeInputs : HandleModeSelect(mode) /\ Within(MaxRequests)
    \/ AnalyzeNow /\ Within(MaxRequests)
    \/ TimeoutFires /\ Within(MaxRequests)
    \/ \E t \in intervals : IntervalTick(t) /\ Within(MaxRequests)
    \/ \E r \in requests, outcome \in ResponseTexts : Complete(r, outcome)
    \/ UtteranceEnds
    \/ StreamAcquired("current")
    \/ VideoBecomesReady
    \/ VideoStalls

Spec == Init /\ [][Next]_vars

\* The scheduler alone, with room for three requests: every user action and
\* timer of Next, one answer of the service, frames that stay available.
NextFlight ==
    \/ ToggleCamera
    \/ ToggleAutoNarration /\ Within(MaxFlight)
    \/ \E v \in IntervalInputs : SetAutoInterval(v) /\ Within(MaxFlight)
    \/ \E mode \in ModeInputs : HandleModeSelect(mode) /\ Within(MaxFlight)
    \/ AnalyzeNow /\ Within(MaxFlight)
    \/ TimeoutFires /\ Within(MaxFlight)
    \/ \E t \in intervals : IntervalTick(t) /\ Within(MaxFlight)
    \/ \E r \in requests : Complete(r, "Path is clear.")
    \/ StreamAcquired("current")
    \/ VideoBecomesReady

SpecFlight == Init /\ [][NextFlight]_vars

\* The transcript log over many results: the camera is turned on and the
\* Analyze Now button brings one result after the other, of either priority.
NextLog ==
    \/ ~isCameraActive /\ ToggleCamera
    \/ StreamAcquired("current")
    \/ VideoBecomesReady
    \/ AnalyzeNow /\ Within(MaxLogRequests)
    \/ \E r \in requests, outcome \in ResponseTexts : Complete(r, outcome)

SpecLog == Init /\ [][NextLog]_vars

\* The analysis service: the camera is turned on and each Analyze Now gets any
\* of the service's answers, an empty one and a failure included.
NextService ==
    \/ ~isCameraActive /\ ToggleCamera
    \/ StreamAcquired("current")
    \/ VideoBecomesReady
    \/ AnalyzeNow /\ Within(MaxServiceRequests)
    \/ \E r \in requests, outcome \in ServiceOutcomes : Complete(r, outcome)

SpecService == Init /\ [][NextService]_vars

\* The analysis service is down: every request fails.  Manual and automatic
\* triggers as in Next.
NextOutage ==
    \/ ~isCameraActive /\ ToggleCamera
    \/ StreamAcquired("current")
    \/ VideoBecomesReady
    \/ ToggleAutoNarration /\ Within(MaxOutageRequests)
    \/ AnalyzeNow /\ Within(MaxOutageRequests)
    \/ \E t \in intervals : IntervalTick(t) /\ Within(MaxOutageRequests)
    \/ \E r \in requests : Complete(r, Fail)

SpecOutage == Init /\ [][NextOutage]_vars

\* The frame source under the scheduler: frames come and go while triggers of
\* every kind arrive; one answer of the service.
NextFrames ==
    \/ ToggleCamera
    \/ StreamAcquired("current")
    \/ VideoBecomesReady
    \/ VideoStalls
    \/ ToggleAutoNarration /\ Within(MaxFrameRequests)
    \/ \E mode \in ModeInputs : HandleModeSelect(mode) /\ Within(MaxFrameRequests)
    \/ AnalyzeNow /\ Within(MaxFrameRequests)
    \/ TimeoutFires /\ Within(MaxFrameRequests)
    \/ \E t \in intervals : IntervalTick(t) /\ Within(MaxFrameRequests)
    \/ \E r \in requests : Complete(r, "Path is clear.")

SpecFrames == Init /\ [][NextFrames]_vars

\* Mode switches: the mode buttons, the camera and the auto-narration toggle,
\* and the delayed trigger of each switch.  A timeout that was set comes due:
\* the browser runs the callback of every pending setTimeout.
NextSwitch ==
    \/ ToggleCamera
    \/ StreamAcquired("current")
    \/ VideoBecomesReady
    \/ ToggleAutoNarration /\ Within(MaxSwitchRequests)
    \/ \E mode \in SwitchInputs : HandleModeSelect(mode) /\ Within(MaxSwitchRequests)
    \/ TimeoutFires /\ Within(MaxSwitchRequests)
    \/ \E t \in intervals : IntervalTick(t) /\ Within(MaxSwitchRequests)
    \/ \E r \in requests : Complete(r, "Path is clear.")

SpecSwitch == Init /\ [][NextSwitch]_vars /\ WF_vars(TimeoutFires)

\* The prompts: every mode and every verbosity can be chosen, before the camera
\* is turned on and after, and manual triggers send the requests.
NextPrompt ==
    \/ ~isCameraActive /\ ToggleCamera
    \/ StreamAcquired("current")
    \/ VideoBecomesReady
    \/ \E mode \in AppMode : HandleModeSelect(mode) /\ Within(MaxPromptRequests)
    \/ \E v \in Verbosity : SetVerbosity(v) /\ Within(MaxPromptRequests)
    \/ AnalyzeNow /\ Within(MaxPromptRequests)
    \/ TimeoutFires /\ Within(MaxPromptRequests)
    \/ \E r \in requests : Complete(r, "Path is clear.")

SpecPrompt == Init /\ [][NextPrompt]_vars

\* The frame source alone: the camera button, the reading-speed slider (a
\* render of App that starts no request), the error banner, and getUserMedia
\* calls that resolve or reject whenever they do.
NextCamera ==
    \/ ToggleCamera
    \/ \E rate \in RateInputs : SetSpeechRate(rate)
    \/ DismissError
    \/ \E run \in Runs : StreamAcquired(run)
    \/ \E run \in Runs : CameraError(run)
    \/ VideoBecomesReady
    \/ VideoStalls

SpecCamera == Init /\ [][NextCamera]_vars

\* Auto-narration under changes of the other inputs of processFrame: with the
\* camera on and auto-narration on, the mode buttons, the verbosity buttons
\* and the reading-speed slider are used, next to the auto-narration toggle,
\* the interval <select> and the timer.
NextRerun ==
    \/ ~isCameraActive /\ ToggleCamera
    \/ StreamAcquired("current")
    \/ VideoBecomesReady
    \/ ToggleAutoNarration /\ Within(MaxRerunRequests)
    \/ \E v \in IntervalInputs : SetAutoInterval(v) /\ Within(MaxRerunRequests)
    \/ \E mode \in SwitchInputs :
           settings.autoNarration /\ HandleModeSelect(mode) /\ Within(MaxRerunRequests)
    \/ \E v \in Verbosity :
           settings.autoNarration /\ SetVerbosity(v) /\ Within(MaxRerunRequests)
    \/ \E rate \in RateInputs :
           settings.autoNarration /\ SetSpeechRate(rate) /\ Within(MaxRerunRequests)
    \/ \E t \in intervals : IntervalTick(t) /\ Within(MaxRerunRequests)
    \/ \E r \in requests : Complete(r, "Path is clear.")

SpecRerun == Init /\ [][NextRerun]_vars

\* The speech device under results of both priorities: the camera is turned on
\* once, and from then on only results are spoken, of manual requests and of
\* auto-narration's, while utterances end whenever they do.
NextArbiter ==
    \/ ~isCameraActive /\ ToggleCamera
    \/ StreamAcquired("current")
    \/ VideoBecomesReady
    \/ ToggleAutoNarration /\ Within(MaxArbiterRequests)
    \/ AnalyzeNow /\ Within(MaxArbiterRequests)
    \/ \E t \in intervals : IntervalTick(t) /\ Within(MaxArbiterRequests)
    \/ \E r \in requests, outcome \in ResponseTexts : Complete(r, outcome)
    \/ UtteranceEnds

SpecArbiter == Init /\ [][NextArbiter]_vars

-----------------------------------------------------------------------------
(* Claims *)

AutoInFlight == {r \in requests : r.auto}
ManualInFlight == {r \in requests : ~r.auto}

\* C1: in every reachable state at most one analysis request started by an
\* auto trigger (processFrame(true)) is outstanding.
C1_AtMostOneAutoInFlight == Cardinality(AutoInFlight) <= 1

\* what a handler that re-runs the effect may itself have said: nothing, or one
\* urgent announcement that replaced everything on the device
HandlerSpeech ==
    \/ synth' = synth
    \/ /\ lastSpeak'.priority = "urgent"
       /\ Len(synth') = 1

\* C2: an auto trigger (the effect's initial one or a timer tick) that runs
\* while processingRef is set is a no-op: no frame is captured and no request
\* issued, and processingRef, isProcessing, the transcript log and the error
\* message stay as they are; the trigger makes no speak call (a tick leaves the
\* device untouched, the effect leaves it as its handler's announcement did).
C2_GatedAutoTriggerIsNoOp ==
    [][(processingRef /\ lastCall'.caller \in AutoCallers) =>
          /\ ~lastCall'.started
          /\ requests' = requests
          /\ issued' = issued
          /\ processingRef' = processingRef
          /\ isProcessing' = isProcessing
          /\ transcripts' = transcripts
          /\ errorMsg' = errorMsg
          /\ now' = now
          /\ (lastCall'.caller = "tick" => synth' = synth /\ lastSpeak'.priority = "none")
          /\ (lastCall'.caller = "effect" => HandlerSpeech)]_vars

\* C2 witness: a timer tick came while a request was outstanding, with the
\* camera on and a frame available, and started nothing.
C2_Witness ==
    /\ lastCall = Call("tick", FALSE)
    /\ processingRef /\ isCameraActive /\ videoReady
    /\ Cardinality(requests) = 1 /\ issued = 1

\* C3: a manual trigger (the Analyze Now button or the mode-switch timeout)
\* made while the camera is on and a frame is available always starts an
\* analysis request, whether or not processingRef is set.
C3_ManualTriggerAlwaysStarts ==
    [][(lastCall'.caller \in ManualCallers /\ isCameraActive /\ videoReady) =>
          /\ lastCall'.started
          /\ issued' = issued + 1
          /\ \E r \in requests' : /\ ~r.auto
                                  /\ r.id = issued'
                                  /\ requests' = requests \cup {r}
          /\ processingRef']_vars

\* C3 witness: a manual trigger has just started a request while an
\* auto-triggered one was outstanding; both are now in flight.
C3_Witness ==
    /\ lastCall.caller \in ManualCallers /\ lastCall.started
    /\ AutoInFlight # {}
    /\ ManualInFlight # {}

\* C4: enabling auto-narration with the camera on calls processFrame(true) at
\* once, and starts an analysis if a frame is available and nothing is in
\* flight; every completion clears processingRef; and a timer tick that finds
\* processingRef clear and a frame available starts a new auto analysis.  While
\* the camera is on and auto-narration enabled a timer is there to tick.
C4_AutoTriggersResume ==
    [][/\ (~settings.autoNarration /\ settings'.autoNarration /\ isCameraActive) =>
             /\ lastCall'.caller = "effect"
             /\ (videoReady /\ ~processingRef) =>
                    (lastCall'.started /\ Cardinality(AutoInFlight') =
                                            Cardinality(AutoInFlight) + 1)
       /\ (Cardinality(requests') < Cardinality(requests)) => ~processingRef'
       /\ (lastCall'.caller = "tick" /\ ~processingRef /\ videoReady) =>
             /\ lastCall'.started
             /\ \E r \in requests' : r.auto /\ r.id = issued' /\ requests' = requests \cup {r}
       /\ (isCameraActive' /\ settings'.autoNarration) => intervals' # {}]_vars

\* C4 witness: after one analysis completed, a timer tick has started the next.
C4_Witness ==
    /\ lastCall = Call("tick", TRUE)
    /\ now = 1 /\ issued = 2
    /\ Cardinality(AutoInFlight) = 1

\* C5: at most one recurring timer is active; the active one has the current
\* autoInterval as its period and is the one autoIntervalRef holds.
C5_SingleTimerAtCurrentInterval ==
    /\ Cardinality(intervals) <= 1
    /\ \A t \in intervals : t.period = settings.autoInterval /\ t.id = autoIntervalRef

\* C5 witness: the timer has been replaced by one with another interval.
C5_Witness ==
    /\ Cardinality(intervals) = 1
    /\ settings.autoInterval # InitialSettings.autoInterval
    /\ \A t \in intervals : t.period = settings.autoInterval /\ t.id = 2

\* C6: while auto-narration is disabled or the camera is off, no recurring
\* timer is active and autoIntervalRef is null.
C6_NoTimerWhenOffOrInactive ==
    (~settings.autoNarration \/ ~isCameraActive) =>
        (intervals = {} /\ autoIntervalRef = 0)

\* C6 witness: auto-narration was on (one of its requests is still in flight)
\* and has been turned off with the camera on; no timer is left.
C6_Witness ==
    /\ ~settings.autoNarration /\ isCameraActive
    /\ AutoInFlight # {}
    /\ intervals = {}

\* the step applies one result: a new entry heads the log, stamped with the
\* completion time, and exactly one speak call is made with its text and priority
AppliesOneResult ==
    /\ now' = now + 1
    /\ transcripts' # <<>>
    /\ Head(transcripts').timestamp = now'
    /\ lastSpeak'.priority = Head(transcripts').priority
    /\ synth' # <<>>
    /\ synth'[Len(synth')].text = Head(transcripts').text

\* C7: a request is never cancelled.  No step other than its completion takes
\* a request out of flight (in particular no camera toggle, auto-narration
\* toggle, interval change or mode selection does); a completion takes out one
\* request and applies one result to the log and the speech service; so every
\* request issued is either still outstanding or has been applied exactly once.
C7_RequestsNeverCancelled ==
    [][/\ Cardinality(requests \ requests') <= 1
       /\ (requests \ requests' # {}) => AppliesOneResult
       /\ (\/ isCameraActive' # isCameraActive
           \/ settings' # settings
           \/ currentMode' # currentMode) => requests \subseteq requests'
       /\ LET done == {applied'[i] : i \in DOMAIN applied'}
              inFlight == {r.id : r \in requests'}
          IN /\ Len(applied') = now'
             /\ Cardinality(done) = Len(applied')
             /\ done \cap inFlight = {}
             /\ done \cup inFlight = 1..issued']_vars

\* C7 witness: a request issued with the camera on completed after the camera
\* was turned off: its text follows "Camera stopped" on the device and heads
\* the log.
C7_Witness ==
    /\ ~isCameraActive
    /\ issued = 1 /\ now = 1 /\ requests = {}
    /\ Len(transcripts) = 1
    /\ Len(synth) = 2
    /\ synth[1].text = "Camera stopped"
    /\ synth[2].text = transcripts[1].text

\* C8: every completion, also of a request that overlaps another, takes only
\* its own request out of flight, keeps the entries already logged, in order,
\* below its own new entry (up to the cap) and makes one speak call; so the log
\* lists the results in completion order, newest first, whichever request was
\* started first.
C8_OverlappingCompletionsIndependent ==
    [][\A r \in requests \ requests' :
          /\ requests' = requests \ {r}
          /\ applied' = Append(applied, r.id)
          /\ AppliesOneResult
          /\ Tail(transcripts') = Slice(transcripts, MaxTranscripts - 1)
          /\ \A i \in 1..Len(transcripts) :
                 transcripts[i].timestamp < Head(transcripts').timestamp]_vars

\* C8 witness: request 2 was started while request 1 was outstanding and
\* completed first; both results are in the log, request 1's on top.
C8_Witness ==
    /\ applied = <<2, 1>>
    /\ Len(transcripts) = 2
    /\ transcripts[1].timestamp = 2 /\ transcripts[2].timestamp = 1
    /\ transcripts[1].priority # transcripts[2].priority

Min(a, b) == IF a < b THEN a ELSE b

\* C9: the transcript log holds the results of the last completions, at most
\* 10 of them, newest first: entry i is the i-th most recent completion.  So
\* each result is inserted at the head, and inserting into a full log drops
\* exactly the oldest entry and keeps the others in order.
C9_LogKeepsTenNewestFirst ==
    /\ Len(transcripts) <= 10
    /\ Len(transcripts) = Min(now, 10)
    /\ \A i \in 1..Len(transcripts) : transcripts[i].timestamp = now - i + 1

\* C9 witness: an 11th result was inserted into the full log: the entry of the
\* first completion is gone, entries 11 down to 2 remain.
C9_Witness ==
    /\ now = 11
    /\ Len(transcripts) = 10
    /\ transcripts[1].timestamp = 11
    /\ transcripts[10].timestamp = 2

\* C10: a speak call with priority urgent (its text is never empty) cancels
\* every utterance on the device, the one being spoken and the queued ones,
\* whatever the device was doing, and leaves the new utterance as the only one,
\* with the raised pitch.
C10_UrgentSpeakReplacesEverything ==
    [][(lastSpeak'.priority = "urgent") =>
          /\ lastSpeak'.cancelled = Len(synth)
          /\ Len(synth') = 1
          /\ synth'[1].pitch = 11
          /\ synth'[1].text # ""]_vars

\* C10 witness: the urgent "Warning: car ahead" was spoken while one utterance
\* was playing and a normal one was queued; it is alone on the device.
C10_Witness ==
    /\ lastSpeak = Spoken("urgent", 2)
    /\ Len(synth) = 1
    /\ synth[1].text = "Warning: car ahead"
    /\ Len(transcripts) = 2
    /\ transcripts[2].priority = "normal"

\* C11: a speak call with priority normal (its text is never empty; it is made
\* with the settings of the request that completes) cancels what is on the
\* device if and only if the device is speaking and those settings have
\* autoNarration set; in every other case the utterance playing and the queued
\* ones stay, in order, and the new utterance is appended after them.
C11_NormalSpeakCancelsOnlyStaleAuto ==
    [][\A r \in requests \ requests' :
          (lastSpeak'.priority = "normal") =>
             /\ synth' # <<>>
             /\ synth'[Len(synth')].pitch = 10
             /\ synth'[Len(synth')].text = Head(transcripts').text
             /\ IF synth # <<>> /\ r.settings.autoNarration
                THEN /\ Len(synth') = 1
                     /\ lastSpeak'.cancelled = Len(synth)
                ELSE /\ Len(synth') = Len(synth) + 1
                     /\ SubSeq(synth', 1, Len(synth)) = synth
                     /\ lastSpeak'.cancelled = 0]_vars

\* C11 witness: a normal result was appended behind the utterance playing
\* (auto-narration off), and the next normal result, of a request issued with
\* auto-narration on, has cancelled both and is alone on the device.
C11_Witness ==
    /\ lastSpeak = Spoken("normal", 2)
    /\ Len(synth) = 1
    /\ Len(transcripts) = 2
    /\ transcripts[1].priority = "normal" /\ transcripts[2].priority = "normal"

\* the texts of ServiceTexts that contain the marker WARNING, or the second
\* marker CAUTION, in some letter case
HasWarningToken(text) ==
    text \in {"Warning: car ahead", "Stop. WARNING: stairs", "mind the step, warning"}
HasCautionToken(text) == text \in {"Caution: wet floor"}

\* C12 as claimed: a logged result is urgent if its text contains WARNING in
\* any letter case at any position, and normal otherwise.
C12_UrgentIffWarningToken ==
    \A i \in DOMAIN transcripts :
        (transcripts[i].priority = "urgent") <=> HasWarningToken(transcripts[i].text)

\* C12: a logged result is urgent if its text contains WARNING or CAUTION in
\* any letter case at any position, and normal otherwise; priority is one of
\* the two.
C12_UrgentIffWarningOrCaution ==
    \A i \in DOMAIN transcripts :
        /\ transcripts[i].priority \in {"urgent", "normal"}
        /\ (transcripts[i].priority = "urgent") <=>
              (HasWarningToken(transcripts[i].text) \/ HasCautionToken(transcripts[i].text))

\* C12 witness: a text with the marker in lower case at its end, then a text
\* with no marker, are both in the log, urgent and normal.
C12_Witness ==
    /\ Len(transcripts) = 2
    /\ transcripts[2] = [text |-> "mind the step, warning", priority |-> "urgent",
                         timestamp |-> 1]
    /\ transcripts[1] = [text |-> "Path is clear.", priority |-> "normal", timestamp |-> 2]

\* C13: with the service down every request ends in the fixed fallback result
\* and is handled like a success: its completion logs one entry, with the
\* fallback text and priority normal, makes one speak call, clears
\* processingRef and isProcessing, leaves errorMsg unset and the timers as they
\* are; and the next tick that finds processingRef clear and a frame available
\* starts a new request.
C13_FailureHandledLikeSuccess ==
    [][/\ \A r \in requests \ requests' :
             /\ requests' = requests \ {r}
             /\ AppliesOneResult
             /\ Len(transcripts') = Min(Len(transcripts) + 1, MaxTranscripts)
             /\ Head(transcripts').text = FallbackText
             /\ Head(transcripts').priority = "normal"
             /\ lastSpeak'.priority = "normal"
             /\ ~processingRef' /\ ~isProcessing'
             /\ errorMsg' = NULL
             /\ intervals' = intervals /\ autoIntervalRef' = autoIntervalRef
             /\ timeouts' = timeouts
       /\ (lastCall'.caller = "tick" /\ ~processingRef /\ videoReady) => lastCall'.started]_vars

\* C13 witness: after a failed request was logged and spoken, a timer tick has
\* started the next request.
C13_Witness ==
    /\ lastCall = Call("tick", TRUE)
    /\ now = 1 /\ issued = 2
    /\ transcripts = <<[text |-> FallbackText, priority |-> "normal", timestamp |-> 1]>>
    /\ errorMsg = NULL

\* C14: a processFrame call of either kind that gets no frame (the <video>
\* element is missing or not at readyState 4) is skipped silently: no request is
\* issued, processingRef and isProcessing are not set, and the transcript log,
\* the error message and the speech device stay as they are (a call from the
\* effect leaves the device as its handler's announcement did).  A call that
\* finds a frame, with the camera on and, for an auto trigger, processingRef
\* clear, starts a request.
C14_NoFrameTriggerSkipped ==
    [][/\ (lastCall'.caller # "none" /\ ~videoReady') =>
             /\ ~lastCall'.started
             /\ requests' = requests
             /\ issued' = issued
             /\ processingRef' = processingRef
             /\ isProcessing' = isProcessing
             /\ transcripts' = transcripts
             /\ errorMsg' = errorMsg
             /\ now' = now
             /\ (lastCall'.caller # "effect" =>
                    synth' = synth /\ lastSpeak'.priority = "none")
             /\ (lastCall'.caller = "effect" => HandlerSpeech)
       /\ (/\ lastCall'.caller # "none"
           /\ videoReady' /\ isCameraActive'
           /\ (lastCall'.caller \in AutoCallers => ~processingRef)) =>
             /\ lastCall'.started
             /\ issued' = issued + 1
             /\ processingRef' /\ isProcessing']_vars

\* C14 witness: one request went through; then the frame was gone and the
\* mode-switch timeout, with the camera on and nothing in flight, was skipped.
C14_Witness ==
    /\ lastCall = Call("timeout", FALSE)
    /\ isCameraActive /\ ~videoReady
    /\ ~processingRef /\ ~isProcessing
    /\ requests = {} /\ issued = 1 /\ now = 1
    /\ Len(transcripts) = 1

\* the step is a mode selection: it announced the mode it selected
ModeSelected ==
    /\ lastSpeak'.priority = "urgent"
    /\ isCameraActive' = isCameraActive
    /\ Len(synth') = 1
    /\ synth'[1].text = ModeAnnouncement(currentMode')

\* C15: a mode selection made with the camera on and auto-narration off sets
\* exactly one timeout, any other mode selection sets none, and no other step
\* sets one; a timeout leaves only by coming due, which calls processFrame()
\* once, as a manual trigger; no step cancels a timeout; and every timeout that
\* was set comes due.
C15_ModeSwitchSchedulesOneTrigger ==
    /\ [][/\ ModeSelected =>
                (IF ~settings.autoNarration /\ isCameraActive
                 THEN /\ Len(timeouts') = Len(timeouts) + 1
                      /\ SubSeq(timeouts', 1, Len(timeouts)) = timeouts
                 ELSE timeouts' = timeouts)
          /\ (Len(timeouts') > Len(timeouts)) => ModeSelected
          /\ (timeouts' # timeouts /\ ~ModeSelected) =>
                /\ timeouts' = Tail(timeouts)
                /\ lastCall'.caller = "timeout"
          /\ (lastCall'.caller = "timeout") =>
                /\ timeouts' = Tail(timeouts)
                /\ Cardinality(requests') <= Cardinality(requests) + 1
                /\ \A r \in requests' \ requests : ~r.auto]_vars
    /\ (timeouts # <<>>) ~> (lastCall.caller = "timeout")

\* C15 witness: two mode selections set two timeouts; the first has come due
\* and started a manual request, the second is still pending.
C15_Witness ==
    /\ lastCall = Call("timeout", TRUE)
    /\ Len(timeouts) = 1
    /\ Cardinality(ManualInFlight) = 1 /\ issued = 1

\* C16: while the camera is off no capture stream is live: the cleanup that
\* ran at deactivation has stopped the tracks of every stream acquired for the
\* activation before it, also of a stream that getUserMedia delivers only
\* after the deactivation.
C16_NoLiveStreamWhileInactive ==
    ~isCameraActive => (camera.stream # "live" /\ ~camera.leaked)

\* C17: processingRef is set exactly while an analysis request, of an auto or
\* a manual trigger, is outstanding.
C17_FlagIffRequestOutstanding == processingRef <=> (requests # {})

Digits == <<"0", "1", "2", "3", "4", "5", "6", "7", "8", "9">>

IsDigit(c) == \E i \in 1..10 : Digits[i] = c
DigitValue(c) == (CHOOSE i \in 1..10 : Digits[i] = c) - 1

RECURSIVE NumberIn(_, _)
\* the number that the digits of cs spell, after acc
NumberIn(cs, acc) ==
    IF cs = <<>> THEN acc
    ELSE NumberIn(Tail(cs), IF IsDigit(Head(cs)) THEN 10 * acc + DigitValue(Head(cs))
                            ELSE acc)

\* the number of words an instruction allows
WordBudget(text) == NumberIn(Chars(text), 0)

StartsWith(cs, prefix) ==
    Len(cs) >= Len(prefix) /\ SubSeq(cs, 1, Len(prefix)) = prefix

\* how the task description of each mode begins
ModeTitle(mode) ==
    CASE mode = "GENERAL" -> <<"G", "e", "n", "e", "r", "a", "l", " ", "M", "o", "d", "e", ".">>
      [] mode = "TEXT" -> <<"T", "e", "x", "t", " ", "R", "e", "a", "d", "e", "r", " ", "M", "o", "d", "e", ".">>
      [] mode = "SOCIAL" -> <<"S", "o", "c", "i", "a", "l", " ", "M", "o", "d", "e", ".">>
      [] mode = "NAVIGATION" -> <<"N", "a", "v", "i", "g", "a", "t", "i", "o", "n", " ", "M", "o", "d", "e", ".">>
      [] mode = "SHOPPING" -> <<"S", "h", "o", "p", "p", "i", "n", "g", " ", "M", "o", "d", "e", ".">>

\* C18: the instruction sent with a request is made of three parts that depend
\* on the request's mode and verbosity only: the task description of the mode
\* (it begins with the mode's title; the one of NAVIGATION names hazards), the
\* length budget of the verbosity (MINIMAL 15, STANDARD 40, DETAILED 70 words),
\* and last the warning-prefix rule, the same in every instruction, which names
\* the marker WARNING.
C18_PromptOfModeAndVerbosity ==
    \A r \in requests :
        /\ r.mode \in AppMode /\ r.settings.verbosity \in Verbosity
        /\ Len(r.prompt) = 3
        /\ StartsWith(Chars(r.prompt[1]), ModeTitle(r.mode))
        /\ \A mode \in AppMode \ {r.mode} :
               ~StartsWith(Chars(r.prompt[1]), ModeTitle(mode))
        /\ (r.mode = "NAVIGATION") =>
               Includes(Chars(r.prompt[1]), <<"h", "a", "z", "a", "r", "d", "s">>)
        /\ WordBudget(r.prompt[2]) =
               (CASE r.settings.verbosity = "MINIMAL" -> 15
                  [] r.settings.verbosity = "STANDARD" -> 40
                  [] r.settings.verbosity = "DETAILED" -> 70)
        /\ Includes(Chars(r.prompt[3]), WARNING)
        /\ \A mode \in AppMode, v \in Verbosity :
               GetPromptForMode(mode, v)[3] = r.prompt[3]

\* C18 witness: a request was sent in mode NAVIGATION with verbosity MINIMAL;
\* its instruction has the hazard-focused task, the 15-word budget and the rule.
C18_Witness ==
    \E r \in requests :
        /\ r.mode = "NAVIGATION" /\ r.settings.verbosity = "MINIMAL"
        /\ Includes(Chars(r.prompt[1]), <<"h", "a", "z", "a", "r", "d", "s">>)
        /\ WordBudget(r.prompt[2]) = 15
        /\ Includes(Chars(r.prompt[3]), WARNING)

\* C19: the request that a mode-switch timeout starts is issued with the mode
\* whose selection set the timeout, and its prompt is the one of that mode.
C19_ModeSwitchTriggerUsesNewMode ==
    [][(lastCall'.caller = "timeout" /\ lastCall'.started) =>
          \A r \in requests' \ requests :
              /\ r.mode = Head(timeouts).selected
              /\ r.prompt[1] = BasePrompt(Head(timeouts).selected)]_vars

\* C20: the speak call of a completion uses the settings in force at the
\* completion: the utterance has the current speech rate, and a normal result
\* cancels what is on the device exactly when the device is speaking and
\* auto-narration is on at that moment.
C20_SpeakUsesCurrentSettings ==
    [][\A r \in requests \ requests' :
          /\ synth' # <<>>
          /\ synth'[Len(synth')].rate = settings.speechRate
          /\ (lastSpeak'.priority = "normal") =>
                IF synth # <<>> /\ settings.autoNarration
                THEN Len(synth') = 1
                ELSE Len(synth') = Len(synth) + 1]_vars

\* the step changes the mode, the verbosity or the speech rate while
\* auto-narration stays on, the camera stays on and the interval stays as it is
OnlyPromptOrRateChanged ==
    /\ isCameraActive /\ isCameraActive'
    /\ settings.autoNarration /\ settings'.autoNarration
    /\ settings'.autoInterval = settings.autoInterval
    /\ \/ currentMode' # currentMode
       \/ settings'.verbosity # settings.verbosity
       \/ settings'.speechRate # settings.speechRate

\* C21: a step that changes the mode, the verbosity or the speech rate while
\* auto-narration stays on with the camera on and the interval unchanged makes
\* no processFrame(true) call and leaves the recurring timer and
\* autoIntervalRef as they are; the effect calls processFrame(true) only in a
\* step that enables auto-narration, turns the camera on or changes the
\* interval (every other auto trigger is a timer tick).
C21_PromptChangeKeepsSchedule ==
    [][/\ OnlyPromptOrRateChanged =>
             /\ lastCall'.caller \notin AutoCallers
             /\ intervals' = intervals
             /\ autoIntervalRef' = autoIntervalRef
       /\ (lastCall'.caller = "effect") =>
             \/ ~settings.autoNarration /\ settings'.autoNarration
             \/ ~isCameraActive /\ isCameraActive'
             \/ settings'.autoInterval # settings.autoInterval]_vars

\* C22: whether a normal speak call cancels does not depend on the priority of
\* the utterance being spoken: made while the device is speaking, it cancels
\* exactly when the settings it is given have autoNarration set, be the
\* utterance in progress urgent or normal; so with autoNarration set, a normal
\* result that arrives while an urgent utterance is being spoken cancels it
\* (and everything queued) and is alone on the device, and without it the
\* utterance in progress stays and the result is queued behind it.
C22_NormalSpeakCancelsUrgentInProgress ==
    [][\A r \in requests \ requests' :
          (lastSpeak'.priority = "normal" /\ synth # <<>>) =>
             /\ (lastSpeak'.cancelled > 0) <=> r.settings.autoNarration
             /\ (Head(synth).pitch = 11 /\ r.settings.autoNarration) =>
                    /\ lastSpeak'.cancelled = Len(synth)
                    /\ Len(synth') = 1
                    /\ synth'[1].pitch = 10
                    /\ synth'[1].text = Head(transcripts').text
             /\ (Head(synth).pitch = 11 /\ ~r.settings.autoNarration) =>
                    /\ Head(synth') = Head(synth)
                    /\ Len(synth') = Len(synth) + 1]_vars

\* C22 witness: the first result was urgent and was being spoken alone (the
\* only speak calls since were of results); the second result, normal and of
\* an auto-narration request, has cancelled it and is alone on the device.
C22_Witness ==
    /\ lastSpeak = Spoken("normal", 1)
    /\ now = 2 /\ Len(transcripts) = 2
    /\ transcripts[2].priority = "urgent"
    /\ transcripts[1].priority = "normal"
    /\ settings.autoNarration
    /\ Len(synth) = 1
    /\ synth[1].pitch = 10 /\ synth[1].text = transcripts[1].text

\* C23: while the camera stays on, the capture stream that is live stays the
\* current one: no step that leaves the camera on stops its tracks or calls
\* getUserMedia again.
C23_StreamKeptWhileActive ==
    [][(isCameraActive /\ isCameraActive' /\ camera.stream = "live") =>
          camera'.stream = "live"]_vars

====
